---- MODULE Spec2Model ----
(***************************************************************************)
(* serde_rw: extension-based dispatch of file reads and writes to the      *)
(* JSON, TOML, XML and YAML back-ends, and the error taxonomy.             *)
(*                                                                         *)
(* A path is a sequence of characters.  A text (file content, rendering)   *)
(* is a sequence of byte groups: one-character strings, and the words      *)
(* "id", "name", the XML tags and the numerals as indivisible groups.      *)
(*                                                                         *)
(* A behaviour follows one path (chosen initially) and the file at that    *)
(* path: every call of the library touches only the file it is given.      *)
(***************************************************************************)
EXTENDS Integers, Sequences, FiniteSets, TLC

VARIABLES path, file, origin, pc, last, features, procs

vars == <<path, file, origin, pc, last, features, procs>>

(***************************************************************************)
(* Bounds of the model.                                                    *)
(***************************************************************************)
\* A failed write may leave the first 0..MaxPartial byte groups of the text.
MaxPartial == 1

\* The indent sizes to_xml_pretty is called with are 0..MaxIndent.
MaxIndent == 4

(***************************************************************************)
(* Sequence helpers.                                                       *)
(***************************************************************************)
RECURSIVE LastIndexOf(_, _, _)
\* The greatest i <= n with s[i] = c, or 0.
LastIndexOf(s, c, n) ==
  IF n = 0 THEN 0
  ELSE IF s[n] = c THEN n ELSE LastIndexOf(s, c, n - 1)

RECURSIVE Repeat(_, _)
Repeat(x, n) == IF n = 0 THEN <<>> ELSE <<x>> \o Repeat(x, n - 1)

(***************************************************************************)
(* Paths and std::path::Path::extension, as the dispatchers call it.       *)
(***************************************************************************)
Str_json == <<"j", "s", "o", "n">>
Str_toml == <<"t", "o", "m", "l">>
Str_xml  == <<"x", "m", "l">>
Str_yml  == <<"y", "m", "l">>
Str_yaml == <<"y", "a", "m", "l">>

Paths ==
  { <<"x", ".">> \o e : e \in
      { Str_json, Str_toml, Str_xml, Str_yml, Str_yaml,
        <<"J", "S", "O", "N">>, <<"J", "s", "o", "n">>, <<"Y", "M", "L">>,
        <<"t", "x", "t">>, <<"T", "x", "t">> } }
  \cup { <<"x">>,                                   \* no dot at all
         <<".", "j", "s", "o", "n">>,               \* hidden file, no extension
         <<"x", ".">>,                              \* trailing dot
         <<"d", ".", "x", "m", "l", "/", "x">>,     \* dot in the directory only
         <<"x", ".", "t", "a", "r", ".", "j", "s", "o", "n">> }

UpperOf ==
  [c \in {"j", "s", "o", "n", "t", "x", "y", "m", "l"} |->
     CASE c = "j" -> "J" [] c = "s" -> "S" [] c = "o" -> "O" [] c = "n" -> "N"
       [] c = "t" -> "T" [] c = "x" -> "X" [] c = "y" -> "Y" [] c = "m" -> "M"
       [] c = "l" -> "L"]

\* u8::to_ascii_lowercase on one character.
AsciiLowerChar(c) ==
  IF \E l \in DOMAIN UpperOf : UpperOf[l] = c
  THEN CHOOSE l \in DOMAIN UpperOf : UpperOf[l] = c
  ELSE c

\* OsStr::to_ascii_lowercase.
to_ascii_lowercase(s) == [i \in 1..Len(s) |-> AsciiLowerChar(s[i])]

\* Path::file_name: the last component; None (<<>>) for "..".
\* An option is <<>> (None) or <<v>> (Some(v)).
file_name(p) ==
  LET cut  == LastIndexOf(p, "/", Len(p))
      name == SubSeq(p, cut + 1, Len(p))
  IN  IF name = <<>> \/ name = <<".", ".">> THEN <<>> ELSE <<name>>

\* Path::extension: the part of the file name after its last dot; None when
\* there is no file name, no dot, or the only dot is the leading one.
PathExtension(p) ==
  IF file_name(p) = <<>> THEN <<>>
  ELSE LET name == file_name(p)[1]
           dot  == LastIndexOf(name, ".", Len(name))
       IN  IF dot = 0 \/ dot = 1 THEN <<>>
           ELSE <<SubSeq(name, dot + 1, Len(name))>>

(***************************************************************************)
(* Typed objects.  The blanket impls (to_file.rs:71, from_file.rs:105)     *)
(* give every Serialize / Deserialize type the file operations; the model  *)
(* takes the tests' Person {id: u32, name: String} and two scalars.        *)
(* Numbers are kept as their numerals.                                     *)
(***************************************************************************)
Obj(type, num, str) == [type |-> type, num |-> num, str |-> str]

Person(id, name) == Obj("Person", id, name)

NoObj == Obj("none", "", <<>>)

Unit == Obj("()", "", <<>>)

Numerals == {"1", "7"}

NameChars == {"a", " "}

Objects ==
  { Person("1", <<"a">>),          \* the tests' shape
    Person("1", <<" ", "a">>),     \* a string with leading white space
    Obj("u32", "7", <<>>),         \* a scalar at the root
    Obj("f64", "inf", <<>>) }      \* f64::INFINITY

Types == {"Person", "u32", "f64"}

RenderOk(t) == [ok |-> TRUE, text |-> t, err |-> ""]

RenderErr(e) == [ok |-> FALSE, text |-> <<>>, err |-> e]

ParseOk(v) == [ok |-> TRUE, val |-> v, err |-> ""]

ParseErr(e) == [ok |-> FALSE, val |-> NoObj, err |-> e]

\* error.to_string(): the message of a back-end's error, a String.
to_string(error) == "message of " \o error

\* .map_err(|error| Error::SerdeError(error.to_string())) on a back-end's result.
map_err_to_string(v) == IF v.ok THEN v ELSE [v EXCEPT !.err = to_string(v.err)]

(***************************************************************************)
(* Lexing shared by the text back-ends: white space outside quotes is      *)
(* dropped, a quoted run becomes one item that starts with its quote, and  *)
(* every other byte group is an item of its own.                           *)
(***************************************************************************)
Unterminated == <<"!">>

RECURSIVE Lex(_, _, _, _, _)
Lex(s, ws, quotes, cur, acc) ==
  IF s = <<>>
  THEN IF cur = <<>> THEN acc ELSE Append(acc, Unterminated)
  ELSE LET c == Head(s) IN
       IF cur # <<>>
       THEN IF c = cur[1]
            THEN Lex(Tail(s), ws, quotes, <<>>, Append(acc, cur))
            ELSE Lex(Tail(s), ws, quotes, Append(cur, c), acc)
       ELSE IF c \in quotes THEN Lex(Tail(s), ws, quotes, <<c>>, acc)
       ELSE IF c \in ws THEN Lex(Tail(s), ws, quotes, <<>>, acc)
       ELSE Lex(Tail(s), ws, quotes, <<>>, Append(acc, <<c>>))

IsQuoted(item, quotes) == Len(item) >= 1 /\ item[1] \in quotes

IsNumeral(item) == Len(item) = 1 /\ item[1] \in Numerals

RECURSIVE SplitLines(_, _, _)
\* The non-empty lines of a lexed text.
SplitLines(items, cur, acc) ==
  IF items = <<>>
  THEN IF cur = <<>> THEN acc ELSE Append(acc, cur)
  ELSE IF Head(items) = <<"\n">>
       THEN SplitLines(Tail(items), <<>>, IF cur = <<>> THEN acc ELSE Append(acc, cur))
       ELSE SplitLines(Tail(items), Append(cur, Head(items)), acc)

(***************************************************************************)
(* JSON back-end (serde_json).                                             *)
(***************************************************************************)
JsonKey(k) == <<"\"", k, "\"">>

JsonString(s) == <<"\"">> \o s \o <<"\"">>

\* serde_json writes a non-finite float as null.
JsonNumber(o) ==
  IF o.type = "f64"
  THEN IF o.num = "inf" THEN <<"null">> ELSE <<o.num, ".", "0">>
  ELSE <<o.num>>

\* serde_json::to_string.
serde_json_to_string(o) ==
  IF o.type = "Person"
  THEN RenderOk(<<"{">> \o JsonKey("id") \o <<":", o.num, ",">>
                \o JsonKey("name") \o <<":">> \o JsonString(o.str) \o <<"}">>)
  ELSE RenderOk(JsonNumber(o))

\* ToJson::to_json.
to_json(o) == map_err_to_string(serde_json_to_string(o))

\* serde_json::to_writer_pretty (two spaces).
serde_json_to_writer_pretty(o) ==
  IF o.type = "Person"
  THEN RenderOk(<<"{", "\n", " ", " ">> \o JsonKey("id") \o <<":", " ", o.num, ",",
                  "\n", " ", " ">> \o JsonKey("name") \o <<":", " ">>
                \o JsonString(o.str) \o <<"\n", "}">>)
  ELSE RenderOk(JsonNumber(o))

\* ToJson::write_json_pretty.
write_json_pretty(o) == map_err_to_string(serde_json_to_writer_pretty(o))

\* ToJson::to_json_pretty: the pretty writer's buffer, then String::from_utf8;
\* the Display of an Error holding a message is the message.
to_json_pretty(o) == write_json_pretty(o)

JsonField(items, k) == items[1] = <<"\"", k>> /\ items[2] = <<":">>

JsonPerson(items) ==
  /\ Len(items) = 9
  /\ items[1] = <<"{">> /\ items[5] = <<",">> /\ items[9] = <<"}">>
  /\ \/ /\ JsonField(SubSeq(items, 2, 3), "id") /\ IsNumeral(items[4])
        /\ JsonField(SubSeq(items, 6, 7), "name") /\ IsQuoted(items[8], {"\""})
     \/ /\ JsonField(SubSeq(items, 2, 3), "name") /\ IsQuoted(items[4], {"\""})
        /\ JsonField(SubSeq(items, 6, 7), "id") /\ IsNumeral(items[8])

JsonPersonValue(items) ==
  IF IsNumeral(items[4])
  THEN Person(items[4][1], Tail(items[8]))
  ELSE Person(items[8][1], Tail(items[4]))

\* serde_json::from_str into the target type.
serde_json_from_str(type, text) ==
  LET items == Lex(text, {" ", "\n", "\t"}, {"\""}, <<>>, <<>>) IN
  CASE type = "Person" ->
         IF JsonPerson(items)
         THEN ParseOk(JsonPersonValue(items)) ELSE ParseErr("serde_json")
    [] type = "u32" ->
         IF Len(items) = 1 /\ IsNumeral(items[1])
         THEN ParseOk(Obj("u32", items[1][1], <<>>)) ELSE ParseErr("serde_json")
    [] type = "f64" ->
         IF Len(items) \in {1, 3} /\ IsNumeral(items[1])
            /\ (Len(items) = 3 => items[2] = <<".">> /\ items[3] = <<"0">>)
         THEN ParseOk(Obj("f64", items[1][1], <<>>)) ELSE ParseErr("serde_json")
    [] OTHER -> ParseErr("serde_json")

\* FromJson::from_json_string.
from_json_string(type, text) == map_err_to_string(serde_json_from_str(type, text))

(***************************************************************************)
(* TOML back-end (toml).  A TOML document is a table: a scalar at the root *)
(* is neither rendered nor parsed.                                         *)
(***************************************************************************)
\* toml::to_string.
toml_to_string(o) ==
  IF o.type = "Person"
  THEN RenderOk(<<"id", " ", "=", " ", o.num, "\n", "name", " ", "=", " ">>
                \o <<"\"">> \o o.str \o <<"\"", "\n">>)
  ELSE RenderErr("toml::ser")

\* ToToml::to_toml.
to_toml(o) == map_err_to_string(toml_to_string(o))

TomlIdLine(l) ==
  Len(l) = 3 /\ l[1] = <<"id">> /\ l[2] = <<"=">> /\ IsNumeral(l[3])

TomlNameLine(l) ==
  Len(l) = 3 /\ l[1] = <<"name">> /\ l[2] = <<"=">> /\ IsQuoted(l[3], {"\""})

\* toml::from_str into the target type.
toml_from_str(type, text) ==
  LET lines == SplitLines(Lex(text, {" ", "\t"}, {"\""}, <<>>, <<>>), <<>>, <<>>) IN
  IF type = "Person" /\ Len(lines) = 2
     /\ \E i, j \in 1..2 : i # j /\ TomlIdLine(lines[i]) /\ TomlNameLine(lines[j])
  THEN LET i == CHOOSE k \in 1..2 : TomlIdLine(lines[k])
       IN  ParseOk(Person(lines[i][3][1], Tail(lines[3 - i][3])))
  ELSE ParseErr("toml::de")

\* FromToml::from_toml_string.
from_toml_string(type, text) == map_err_to_string(toml_from_str(type, text))

(***************************************************************************)
(* YAML back-end (serde_yaml), block style as serde_yaml writes it.  A     *)
(* plain scalar loses the white space around it, so a string that starts   *)
(* or ends with white space is written in single quotes.                   *)
(***************************************************************************)
YamlString(s) ==
  IF s = <<>> \/ s[1] = " " \/ s[Len(s)] = " "
  THEN <<"'">> \o s \o <<"'">>
  ELSE s

YamlNumber(o) ==
  IF o.type = "f64"
  THEN IF o.num = "inf" THEN <<".inf">> ELSE <<o.num, ".", "0">>
  ELSE <<o.num>>

\* serde_yaml::to_string.
serde_yaml_to_string(o) ==
  IF o.type = "Person"
  THEN RenderOk(<<"id", ":", " ", o.num, "\n", "name", ":", " ">>
                \o YamlString(o.str) \o <<"\n">>)
  ELSE RenderOk(YamlNumber(o) \o <<"\n">>)

\* ToYaml::to_yaml: the error is kept as it is (error.into()).
to_yaml(o) == serde_yaml_to_string(o)

YamlIdLine(l) ==
  Len(l) = 3 /\ l[1] = <<"id">> /\ l[2] = <<":">> /\ IsNumeral(l[3])

YamlNameLine(l) ==
  /\ Len(l) = 3 /\ l[1] = <<"name">> /\ l[2] = <<":">>
  /\ l[3] # Unterminated
  /\ l[3][1] \notin {"{", "}", ",", ":"}

YamlStringValue(item) == IF IsQuoted(item, {"'", "\""}) THEN Tail(item) ELSE item

\* serde_yaml::from_str into the target type.
serde_yaml_from_str(type, text) ==
  LET lines == SplitLines(Lex(text, {" "}, {"'", "\""}, <<>>, <<>>), <<>>, <<>>) IN
  CASE type = "Person" ->
         IF Len(lines) = 2
            /\ \E i, j \in 1..2 : i # j /\ YamlIdLine(lines[i]) /\ YamlNameLine(lines[j])
         THEN LET i == CHOOSE k \in 1..2 : YamlIdLine(lines[k])
              IN  ParseOk(Person(lines[i][3][1], YamlStringValue(lines[3 - i][3])))
         ELSE ParseErr("serde_yaml")
    [] type = "u32" ->
         IF Len(lines) = 1 /\ Len(lines[1]) = 1 /\ IsNumeral(lines[1][1])
         THEN ParseOk(Obj("u32", lines[1][1][1], <<>>)) ELSE ParseErr("serde_yaml")
    [] type = "f64" ->
         IF Len(lines) = 1 /\ lines[1] = << <<".inf">> >>
         THEN ParseOk(Obj("f64", "inf", <<>>))
         ELSE IF Len(lines) = 1 /\ Len(lines[1]) \in {1, 3} /\ IsNumeral(lines[1][1])
                 /\ (Len(lines[1]) = 3 => lines[1][2] = <<".">> /\ lines[1][3] = <<"0">>)
         THEN ParseOk(Obj("f64", lines[1][1][1], <<>>))
         ELSE ParseErr("serde_yaml")
    [] OTHER -> ParseErr("serde_yaml")

\* FromYaml::from_yaml_string: the error is kept as it is (error.into()).
from_yaml_string(type, text) == serde_yaml_from_str(type, text)

(***************************************************************************)
(* XML back-end (quick_xml).  A scalar at the root has no tag to carry it  *)
(* and is not rendered.                                                    *)
(***************************************************************************)
StartTags == {"<Person>", "<id>", "<name>"}

EndTags == {"</Person>", "</id>", "</name>"}

EmptyTags == {"<name/>"}

Tags == StartTags \cup EndTags \cup EmptyTags

XmlWs == {" ", "\n", "\t", "\r"}

\* quick_xml::se::to_string.
quick_xml_se_to_string(o) ==
  IF o.type = "Person"
  THEN RenderOk(<<"<Person>", "<id>", o.num, "</id>">>
                \o (IF o.str = <<>> THEN <<"<name/>">>
                    ELSE <<"<name>">> \o o.str \o <<"</name>">>)
                \o <<"</Person>">>)
  ELSE RenderErr("quick_xml::se")

\* ToXml::to_xml.
to_xml(o) == map_err_to_string(quick_xml_se_to_string(o))

RECURSIVE TrimStart(_)
TrimStart(s) ==
  IF s # <<>> /\ Head(s) \in XmlWs THEN TrimStart(Tail(s)) ELSE s

RECURSIVE TrimEnd(_)
TrimEnd(s) ==
  IF s # <<>> /\ s[Len(s)] \in XmlWs THEN TrimEnd(SubSeq(s, 1, Len(s) - 1)) ELSE s

\* One text event of the reader: with trim_text, trimmed and skipped if empty.
TextEvent(run, trim, acc) ==
  LET t == IF trim THEN TrimEnd(TrimStart(run)) ELSE run
  IN  IF t = <<>> THEN acc ELSE Append(acc, t)

RECURSIVE XmlEvents(_, _, _, _)
\* Reader::read_event until Eof: tags as one-element events, text runs between.
XmlEvents(s, trim, run, acc) ==
  IF s = <<>> THEN TextEvent(run, trim, acc)
  ELSE IF Head(s) \in Tags
       THEN XmlEvents(Tail(s), trim, <<>>, Append(TextEvent(run, trim, acc), <<Head(s)>>))
       ELSE XmlEvents(Tail(s), trim, Append(run, Head(s)), acc)

IsTag(ev) == Len(ev) = 1 /\ ev[1] \in Tags

\* The byte group of one byte of indentation.
ByteGroup(b) ==
  CASE b = 32 -> " " [] b = 9 -> "\t" [] b = 10 -> "\n" [] OTHER -> ToString(b)

Indentation(b, size, depth) == <<"\n">> \o Repeat(ByteGroup(b), size * depth)

RECURSIVE WriteEvents(_, _, _, _, _, _)
\* Writer::new_with_indent(.., b, size) and write_event on every event: a line
\* break and the indentation before a tag that does not follow text.
WriteEvents(evs, b, size, depth, brk, out) ==
  IF evs = <<>> THEN out
  ELSE LET ev == Head(evs) IN
       IF IsTag(ev) /\ ev[1] \in StartTags
       THEN WriteEvents(Tail(evs), b, size, depth + 1, TRUE,
              out \o (IF brk THEN Indentation(b, size, depth) ELSE <<>>) \o ev)
       ELSE IF IsTag(ev) /\ ev[1] \in EndTags
       THEN WriteEvents(Tail(evs), b, size, depth - 1, TRUE,
              out \o (IF brk THEN Indentation(b, size, depth - 1) ELSE <<>>) \o ev)
       ELSE IF IsTag(ev)
       THEN WriteEvents(Tail(evs), b, size, depth, TRUE,
              out \o (IF brk THEN Indentation(b, size, depth) ELSE <<>>) \o ev)
       ELSE WriteEvents(Tail(evs), b, size, depth, FALSE, out \o ev)

\* String::from_utf8 on the writer's bytes: a lone byte above 127 is not UTF-8.
IsUtf8(text, b) == b < 128 \/ \A i \in 1..Len(text) : text[i] # ByteGroup(b)

\* ToXml::to_xml_pretty: re-reads to_xml's text with trim_text(true) and
\* writes the events with the indentation (indent_char as u8, indent_size).
to_xml_pretty(o, indent_char, indent_size) ==
  LET xml == to_xml(o) IN
  IF ~xml.ok THEN xml
  ELSE LET b    == indent_char % 256
           text == WriteEvents(XmlEvents(xml.text, TRUE, <<>>, <<>>),
                               b, indent_size, 0, FALSE, <<>>)
       IN  IF IsUtf8(text, b) THEN RenderOk(text)
           ELSE RenderErr(to_string("from_utf8"))

\* The name element of a Person: Some(text) or None.
XmlName(el) ==
  IF Len(el) = 3 /\ el[1] = <<"<name>">> /\ el[3] = <<"</name>">> /\ ~IsTag(el[2])
  THEN <<el[2]>>
  ELSE IF el = << <<"<name>">>, <<"</name>">> >> \/ el = << <<"<name/>">> >>
  THEN << <<>> >>
  ELSE <<>>

XmlId(el) ==
  IF Len(el) = 3 /\ el[1] = <<"<id>">> /\ el[3] = <<"</id>">> /\ IsNumeral(el[2])
  THEN <<el[2][1]>>
  ELSE <<>>

\* quick_xml::de::from_str into the target type.  The deserializer skips
\* white space between elements and trims text at the tags.
quick_xml_de_from_str(type, text) ==
  LET evs  == XmlEvents(text, TRUE, <<>>, <<>>)
      n    == Len(evs)
      body == SubSeq(evs, 2, n - 1)
      m    == Len(body)
  IN  IF type = "Person" /\ n >= 2
         /\ evs[1] = <<"<Person>">> /\ evs[n] = <<"</Person>">>
         /\ \E k \in 0..m :
              \/ XmlId(SubSeq(body, 1, k)) # <<>> /\ XmlName(SubSeq(body, k + 1, m)) # <<>>
              \/ XmlName(SubSeq(body, 1, k)) # <<>> /\ XmlId(SubSeq(body, k + 1, m)) # <<>>
      THEN LET k == CHOOSE k \in 0..m :
                      \/ XmlId(SubSeq(body, 1, k)) # <<>> /\ XmlName(SubSeq(body, k + 1, m)) # <<>>
                      \/ XmlName(SubSeq(body, 1, k)) # <<>> /\ XmlId(SubSeq(body, k + 1, m)) # <<>>
               a == SubSeq(body, 1, k)
               z == SubSeq(body, k + 1, m)
           IN  IF XmlId(a) # <<>>
               THEN ParseOk(Person(XmlId(a)[1], XmlName(z)[1]))
               ELSE ParseOk(Person(XmlId(z)[1], XmlName(a)[1]))
      ELSE ParseErr("quick_xml::de")

\* FromXml::from_xml_string.
from_xml_string(type, text) == map_err_to_string(quick_xml_de_from_str(type, text))

(***************************************************************************)
(* The file and std::fs.  A file is absent or holds a text.  The           *)
(* environment decides per call whether the file system fails.             *)
(***************************************************************************)
NoFile == [exists |-> FALSE, text |-> <<>>]

FileOf(t) == [exists |-> TRUE, text |-> t]

ReadFaults == {"none", "denied"}

\* "open": the file cannot be created or truncated; "write": writing fails
\* after the file was truncated and some, not all, byte groups were written.
WriteFaults == {"none", "open", "write"}

IsUtf8Text(t) == \A i \in 1..Len(t) : t[i] \notin {ByteGroup(b) : b \in 128..255}

\* std::fs::read_to_string.
read_to_string(f, fault) ==
  IF fault = "denied" THEN [ok |-> FALSE, text |-> <<>>, err |-> "PermissionDenied"]
  ELSE IF ~f.exists THEN [ok |-> FALSE, text |-> <<>>, err |-> "NotFound"]
  ELSE IF ~IsUtf8Text(f.text) THEN [ok |-> FALSE, text |-> <<>>, err |-> "InvalidData"]
  ELSE [ok |-> TRUE, text |-> f.text, err |-> ""]

\* std::fs::write opening the file without truncating it.
write_no_truncate(f, text, fault, k) ==
  CASE fault = "open" -> [ok |-> FALSE, err |-> "PermissionDenied", file |-> f]
    [] fault = "write" /\ text # <<>> ->
         [ok |-> FALSE, err |-> "StorageFull",
          file |-> FileOf(SubSeq(text, 1, IF k < Len(text) THEN k ELSE Len(text) - 1))]
    [] OTHER ->
         [ok |-> TRUE, err |-> "",
          file |-> FileOf(text \o (IF f.exists /\ Len(f.text) > Len(text)
                                   THEN SubSeq(f.text, Len(text) + 1, Len(f.text))
                                   ELSE <<>>))]

\* std::fs::write opening the file for appending.
write_append(f, text, fault, k) ==
  CASE fault = "open" -> [ok |-> FALSE, err |-> "PermissionDenied", file |-> f]
    [] fault = "write" /\ text # <<>> ->
         [ok |-> FALSE, err |-> "StorageFull",
          file |-> FileOf(f.text \o
                          SubSeq(text, 1, IF k < Len(text) THEN k ELSE Len(text) - 1))]
    [] OTHER -> [ok |-> TRUE, err |-> "", file |-> FileOf(text)]

\* std::fs::write: File::create (create or truncate), then write_all, which
\* fails before the last byte group is written if it fails.
write(f, text, fault, k) ==
  CASE fault = "open" -> [ok |-> FALSE, err |-> "PermissionDenied", file |-> f]
    [] fault = "write" /\ text # <<>> ->
         [ok |-> FALSE, err |-> "StorageFull",
          file |-> FileOf(SubSeq(text, 1, IF k < Len(text) THEN k ELSE Len(text) - 1))]
    [] OTHER -> [ok |-> TRUE, err |-> "", file |-> FileOf(text)]

(***************************************************************************)
(* Error (error.rs) and Result values.  An extension carried by an error   *)
(* is an option: <<>> or <<extension>>.                                    *)
(***************************************************************************)
Result(tag, ext, kind, val) == [tag |-> tag, ext |-> ext, kind |-> kind, val |-> val]

Ok(v) == Result("Ok", <<>>, "", v)

\* Error::Io, from std::io::Error (error.rs:43-47).
Io(kind) == Result("Io", <<>>, kind, NoObj)

\* Error::Serde, from the back-ends' errors (error.rs:49-88).
Serde(source) == Result("Serde", <<>>, source, NoObj)

UnsupportedFileExtension(extension) ==
  Result("UnsupportedFileExtension", <<extension>>, "", NoObj)

NoFileExtensionsSpecified == Result("NoFileExtensionsSpecified", <<>>, "", NoObj)

\* impl std::error::Error for Error, source(): an option, <<>> or <<cause>>.
source(res) ==
  CASE res.tag = "Io" -> <<res.kind>>
    [] res.tag = "Serde" -> <<res.kind>>
    [] OTHER -> <<>>

\* What a call did: its result, the file afterwards, the file system calls made.
Outcome(res, f, attempts) == [res |-> res, file |-> f, attempts |-> attempts]

(***************************************************************************)
(* formats/*.rs: the per-format file functions.                            *)
(***************************************************************************)
\* read_to_string(filename).map_err(..).and_then(|text| from_<format>_string(&text)):
\* r is the read's result and v the back-end's result on the text read.
ReadAndParse_wrong_variant(r, v, f) ==
  IF ~r.ok THEN Outcome(Io(r.err), f, 1)
  ELSE Outcome(IF v.ok THEN Ok(v.val) ELSE Io("InvalidData"), f, 1)

ReadAndParse(r, v, f) ==
  IF ~r.ok THEN Outcome(Io(r.err), f, 1)
  ELSE Outcome(IF v.ok THEN Ok(v.val) ELSE Serde(v.err), f, 1)

\* write(filename, <rendering>?).map_err(..): the rendering is made first.
RenderAndWrite_wrong_variant(rendering, f, fault, k) ==
  IF ~rendering.ok THEN Outcome(Serde(rendering.err), f, 0)
  ELSE LET w == write(f, rendering.text, fault, k)
       IN  Outcome(IF w.ok THEN Ok(Unit) ELSE Serde(w.err), w.file, 1)

\* The file is created before the object is rendered.
RenderAndWrite_create_first(rendering, f, fault, k) ==
  IF fault = "open" THEN Outcome(Io("PermissionDenied"), f, 1)
  ELSE IF ~rendering.ok THEN Outcome(Serde(rendering.err), FileOf(<<>>), 1)
  ELSE LET w == write(f, rendering.text, fault, k)
       IN  Outcome(IF w.ok THEN Ok(Unit) ELSE Io(w.err), w.file, 1)

RenderAndWrite(rendering, f, fault, k) ==
  IF ~rendering.ok THEN Outcome(Serde(rendering.err), f, 0)
  ELSE LET w == write(f, rendering.text, fault, k)
       IN  Outcome(IF w.ok THEN Ok(Unit) ELSE Io(w.err), w.file, 1)

from_json_file(type, f, fault) ==
  ReadAndParse(read_to_string(f, fault),
               from_json_string(type, read_to_string(f, fault).text), f)

from_toml_file(type, f, fault) ==
  ReadAndParse(read_to_string(f, fault),
               from_toml_string(type, read_to_string(f, fault).text), f)

from_xml_file(type, f, fault) ==
  ReadAndParse(read_to_string(f, fault),
               from_xml_string(type, read_to_string(f, fault).text), f)

from_yaml_file(type, f, fault) ==
  ReadAndParse(read_to_string(f, fault),
               from_yaml_string(type, read_to_string(f, fault).text), f)

write_to_json_file(o, f, fault, k) == RenderAndWrite(to_json(o), f, fault, k)

write_to_json_file_pretty(o, f, fault, k) == RenderAndWrite(to_json_pretty(o), f, fault, k)

write_to_toml_file(o, f, fault, k) == RenderAndWrite(to_toml(o), f, fault, k)

write_to_xml_file(o, f, fault, k) == RenderAndWrite(to_xml(o), f, fault, k)

write_to_xml_file_pretty(o, f, indent_char, indent_size, fault, k) ==
  RenderAndWrite(to_xml_pretty(o, indent_char, indent_size), f, fault, k)

write_to_yaml_file(o, f, fault, k) == RenderAndWrite(to_yaml(o), f, fault, k)

(***************************************************************************)
(* from_file.rs and to_file.rs: dispatch on the extension.                 *)
(***************************************************************************)
\* The cargo features, one per back-end: each guards the arms of its format.
Features == {"json", "toml", "xml", "yaml"}

XML_INDENT_CHAR == 32

XML_INDENT_LEN == 4

\* from_file matching the extension as written.
from_file_case_sensitive(p, type, f, fault) ==
  LET e == PathExtension(p) IN
  IF e = <<>> THEN Outcome(NoFileExtensionsSpecified, f, 0)
  ELSE LET extension == e[1] IN
       CASE extension = Str_json /\ "json" \in features -> from_json_file(type, f, fault)
         [] extension = Str_toml /\ "toml" \in features -> from_toml_file(type, f, fault)
         [] extension = Str_xml /\ "xml" \in features -> from_xml_file(type, f, fault)
         [] extension \in {Str_yml, Str_yaml} /\ "yaml" \in features ->
              from_yaml_file(type, f, fault)
         [] OTHER -> Outcome(UnsupportedFileExtension(extension), f, 0)

\* from_file reporting the extension of a disabled format as missing.
from_file_disabled_as_missing(p, type, f, fault) ==
  LET e == PathExtension(p) IN
  IF e = <<>> THEN Outcome(NoFileExtensionsSpecified, f, 0)
  ELSE LET extension == to_ascii_lowercase(e[1]) IN
       CASE extension = Str_json /\ "json" \in features -> from_json_file(type, f, fault)
         [] extension = Str_toml /\ "toml" \in features -> from_toml_file(type, f, fault)
         [] extension = Str_xml /\ "xml" \in features -> from_xml_file(type, f, fault)
         [] extension \in {Str_yml, Str_yaml} /\ "yaml" \in features ->
              from_yaml_file(type, f, fault)
         [] extension \in {Str_json, Str_toml, Str_xml, Str_yml, Str_yaml} ->
              Outcome(NoFileExtensionsSpecified, f, 0)
         [] OTHER -> Outcome(UnsupportedFileExtension(extension), f, 0)

\* from_file reading the file before it looks at the extension.
from_file_read_first(p, type, f, fault) ==
  LET e == PathExtension(p)
      r == read_to_string(f, fault)
  IN
  IF ~r.ok THEN Outcome(Io(r.err), f, 1)
  ELSE IF e = <<>> THEN Outcome(NoFileExtensionsSpecified, f, 1)
  ELSE LET extension == to_ascii_lowercase(e[1]) IN
       CASE extension = Str_json /\ "json" \in features -> from_json_file(type, f, fault)
         [] extension = Str_toml /\ "toml" \in features -> from_toml_file(type, f, fault)
         [] extension = Str_xml /\ "xml" \in features -> from_xml_file(type, f, fault)
         [] extension \in {Str_yml, Str_yaml} /\ "yaml" \in features ->
              from_yaml_file(type, f, fault)
         [] OTHER -> Outcome(UnsupportedFileExtension(extension), f, 1)

\* FromFile::from_file.
from_file(p, type, f, fault) ==
  LET e == PathExtension(p) IN
  IF e = <<>> THEN Outcome(NoFileExtensionsSpecified, f, 0)
  ELSE LET extension == to_ascii_lowercase(e[1]) IN
       CASE extension = Str_json /\ "json" \in features -> from_json_file(type, f, fault)
         [] extension = Str_toml /\ "toml" \in features -> from_toml_file(type, f, fault)
         [] extension = Str_xml /\ "xml" \in features -> from_xml_file(type, f, fault)
         [] extension \in {Str_yml, Str_yaml} /\ "yaml" \in features ->
              from_yaml_file(type, f, fault)
         [] OTHER -> Outcome(UnsupportedFileExtension(extension), f, 0)

\* write_to_file reporting the extension as written in the path.
write_to_file_raw_extension(o, p, f, fault, k) ==
  LET e == PathExtension(p) IN
  IF e = <<>> THEN Outcome(NoFileExtensionsSpecified, f, 0)
  ELSE LET extension == to_ascii_lowercase(e[1]) IN
       CASE extension = Str_json /\ "json" \in features -> write_to_json_file(o, f, fault, k)
         [] extension = Str_toml /\ "toml" \in features -> write_to_toml_file(o, f, fault, k)
         [] extension = Str_xml /\ "xml" \in features -> write_to_xml_file(o, f, fault, k)
         [] extension \in {Str_yml, Str_yaml} /\ "yaml" \in features ->
              write_to_yaml_file(o, f, fault, k)
         [] OTHER -> Outcome(UnsupportedFileExtension(e[1]), f, 0)

\* write_to_file without the yml alias.
write_to_file_yaml_only(o, p, f, fault, k) ==
  LET e == PathExtension(p) IN
  IF e = <<>> THEN Outcome(NoFileExtensionsSpecified, f, 0)
  ELSE LET extension == to_ascii_lowercase(e[1]) IN
       CASE extension = Str_json /\ "json" \in features -> write_to_json_file(o, f, fault, k)
         [] extension = Str_toml /\ "toml" \in features -> write_to_toml_file(o, f, fault, k)
         [] extension = Str_xml /\ "xml" \in features -> write_to_xml_file(o, f, fault, k)
         [] extension = Str_yaml /\ "yaml" \in features -> write_to_yaml_file(o, f, fault, k)
         [] OTHER -> Outcome(UnsupportedFileExtension(extension), f, 0)

\* ToFile::write_to_file.
write_to_file(o, p, f, fault, k) ==
  LET e == PathExtension(p) IN
  IF e = <<>> THEN Outcome(NoFileExtensionsSpecified, f, 0)
  ELSE LET extension == to_ascii_lowercase(e[1]) IN
       CASE extension = Str_json /\ "json" \in features -> write_to_json_file(o, f, fault, k)
         [] extension = Str_toml /\ "toml" \in features -> write_to_toml_file(o, f, fault, k)
         [] extension = Str_xml /\ "xml" \in features -> write_to_xml_file(o, f, fault, k)
         [] extension \in {Str_yml, Str_yaml} /\ "yaml" \in features ->
              write_to_yaml_file(o, f, fault, k)
         [] OTHER -> Outcome(UnsupportedFileExtension(extension), f, 0)

\* write_to_file_pretty taking a missing extension for an empty one.
write_to_file_pretty_empty_extension(o, p, f, fault, k) ==
  LET e == PathExtension(p) IN
  IF e = <<>> THEN Outcome(UnsupportedFileExtension(<<>>), f, 0)
  ELSE LET extension == to_ascii_lowercase(e[1]) IN
       CASE extension = Str_json /\ "json" \in features -> write_to_json_file_pretty(o, f, fault, k)
         [] extension = Str_xml /\ "xml" \in features ->
              write_to_xml_file_pretty(o, f, XML_INDENT_CHAR, XML_INDENT_LEN, fault, k)
         [] OTHER -> write_to_file(o, p, f, fault, k)

\* write_to_file_pretty refusing the formats without a pretty mode.
write_to_file_pretty_no_fallback(o, p, f, fault, k) ==
  LET e == PathExtension(p) IN
  IF e = <<>> THEN Outcome(NoFileExtensionsSpecified, f, 0)
  ELSE LET extension == to_ascii_lowercase(e[1]) IN
       CASE extension = Str_json /\ "json" \in features -> write_to_json_file_pretty(o, f, fault, k)
         [] extension = Str_xml /\ "xml" \in features ->
              write_to_xml_file_pretty(o, f, XML_INDENT_CHAR, XML_INDENT_LEN, fault, k)
         [] OTHER -> Outcome(UnsupportedFileExtension(extension), f, 0)

\* ToFile::write_to_file_pretty.
write_to_file_pretty(o, p, f, fault, k) ==
  LET e == PathExtension(p) IN
  IF e = <<>> THEN Outcome(NoFileExtensionsSpecified, f, 0)
  ELSE LET extension == to_ascii_lowercase(e[1]) IN
       CASE extension = Str_json /\ "json" \in features -> write_to_json_file_pretty(o, f, fault, k)
         [] extension = Str_xml /\ "xml" \in features ->
              write_to_xml_file_pretty(o, f, XML_INDENT_CHAR, XML_INDENT_LEN, fault, k)
         [] OTHER -> write_to_file(o, p, f, fault, k)

(***************************************************************************)
(* lib.rs: the crate root's own FromFile / ToFile with its three-variant   *)
(* Error {FileError, InvalidExtension(Option<String>), SerdeError}.        *)
(***************************************************************************)
FileError(kind) == Result("FileError", <<>>, kind, NoObj)

SerdeError(message) == Result("SerdeError", <<>>, message, NoObj)

InvalidExtension(option) == Result("InvalidExtension", option, "", NoObj)

\* fn extension (lib.rs): Path::extension as &str, or InvalidExtension(None).
lib_extension(p) == PathExtension(p)

\* FromFile::read_file, then from_<format>_string (lib.rs): r is the read's
\* result and v the back-end's result on the text read.
lib_read_and_parse(r, v, f) ==
  IF ~r.ok THEN Outcome(FileError(r.err), f, 1)
  ELSE Outcome(IF v.ok THEN Ok(v.val) ELSE SerdeError(v.err), f, 1)

\* ToFile::write_file(filename, to_<format>(self)?) (lib.rs).
lib_render_and_write(rendering, f, fault, k) ==
  IF ~rendering.ok THEN Outcome(SerdeError(rendering.err), f, 0)
  ELSE LET w == write(f, rendering.text, fault, k)
       IN  Outcome(IF w.ok THEN Ok(Unit) ELSE FileError(w.err), w.file, 1)

\* FromFile::from_file (lib.rs).
lib_from_file(p, type, f, fault) ==
  LET e == lib_extension(p) IN
  IF e = <<>> THEN Outcome(InvalidExtension(<<>>), f, 0)
  ELSE LET extension == e[1] IN
       CASE extension = Str_json /\ "json" \in features ->
              lib_read_and_parse(read_to_string(f, fault),
                from_json_string(type, read_to_string(f, fault).text), f)
         [] extension = Str_toml /\ "toml" \in features ->
              lib_read_and_parse(read_to_string(f, fault),
                from_toml_string(type, read_to_string(f, fault).text), f)
         [] extension = Str_xml /\ "xml" \in features ->
              lib_read_and_parse(read_to_string(f, fault),
                from_xml_string(type, read_to_string(f, fault).text), f)
         [] extension \in {Str_yml, Str_yaml} /\ "yaml" \in features ->
              lib_read_and_parse(read_to_string(f, fault),
                map_err_to_string(from_yaml_string(type, read_to_string(f, fault).text)),
                f)
         [] OTHER -> Outcome(InvalidExtension(<<extension>>), f, 0)

\* ToFile::write_to_file (lib.rs).
lib_write_to_file(o, p, f, fault, k) ==
  LET e == lib_extension(p) IN
  IF e = <<>> THEN Outcome(InvalidExtension(<<>>), f, 0)
  ELSE LET extension == e[1] IN
       CASE extension = Str_json /\ "json" \in features ->
              lib_render_and_write(to_json(o), f, fault, k)
         [] extension = Str_toml /\ "toml" \in features ->
              lib_render_and_write(to_toml(o), f, fault, k)
         [] extension = Str_xml /\ "xml" \in features ->
              lib_render_and_write(to_xml(o), f, fault, k)
         [] extension \in {Str_yml, Str_yaml} /\ "yaml" \in features ->
              lib_render_and_write(map_err_to_string(to_yaml(o)), f, fault, k)
         [] OTHER -> Outcome(InvalidExtension(<<extension>>), f, 0)

(***************************************************************************)
(* functions.rs: the extension resolver as a function of its own, with an  *)
(* anyhow error.                                                           *)
(***************************************************************************)
\* OsStr::to_str: None for an extension that is not UTF-8.
to_str(s) == IF IsUtf8Text(s) THEN <<s>> ELSE <<>>

\* str::to_lowercase; on the letters of the model it is the ASCII mapping.
to_lowercase(s) == [i \in 1..Len(s) |-> AsciiLowerChar(s[i])]

\* Ok(extension) of the resolver: the ext field carries the String.
OkExtension(extension) == Result("Ok", <<extension>>, "", NoObj)

\* anyhow::Error::msg.
AnyhowMsg(message) == Result("anyhow", <<>>, message, NoObj)

\* The resolver splitting the file name at its first dot.
functions_extension_first_dot(p, f) ==
  IF file_name(p) = <<>> THEN Outcome(AnyhowMsg("missing extension"), f, 0)
  ELSE LET name == file_name(p)[1]
           dots == {i \in 2..Len(name) : name[i] = "."}
       IN  IF dots = {} THEN Outcome(AnyhowMsg("missing extension"), f, 0)
           ELSE LET dot == CHOOSE i \in dots : \A j \in dots : i <= j
                IN  Outcome(OkExtension(to_lowercase(SubSeq(name, dot + 1, Len(name)))),
                            f, 0)

\* pub fn extension (functions.rs); f is the file, which it does not access.
functions_extension(p, f) ==
  LET e == PathExtension(p) IN
  IF e = <<>> \/ to_str(e[1]) = <<>>
  THEN Outcome(AnyhowMsg("missing extension"), f, 0)
  ELSE Outcome(OkExtension(to_lowercase(to_str(e[1])[1])), f, 0)

(***************************************************************************)
(* The state machine.  origin remembers which call last wrote the file in  *)
(* full; last is the call that has returned and not yet been consumed.     *)
(***************************************************************************)
NoCall ==
  [op |-> "none", obj |-> NoObj, type |-> "none", fault |-> "none", k |-> 0,
   res |-> Ok(Unit), source |-> <<>>, before |-> NoFile, attempts |-> 0]

Call(op, obj, type, fault, k, out) ==
  [op |-> op, obj |-> obj, type |-> type, fault |-> fault, k |-> k,
   res |-> out.res, source |-> source(out.res), before |-> file,
   attempts |-> out.attempts]

NoOrigin == [op |-> "none", obj |-> NoObj]

\* Content other programs leave at the path: truncated JSON, an empty file,
\* bytes that are not UTF-8.
ForeignTexts ==
  { <<"{", "\"", "id", "\"", ":", " ", "1", ",">>,
    <<>>,
    <<ByteGroup(255)>> }

\* No call of the concurrent programs is in progress.
NoProcs == <<>>

\* The build with every feature enabled.
Init ==
  /\ path \in Paths
  /\ file = NoFile
  /\ origin = NoOrigin
  /\ pc = "idle"
  /\ last = NoCall
  /\ features = Features
  /\ procs = NoProcs

\* Every build configuration: any subset of the features.
InitBuilds ==
  /\ path \in Paths
  /\ file = NoFile
  /\ origin = NoOrigin
  /\ pc = "idle"
  /\ last = NoCall
  /\ features \in SUBSET Features
  /\ procs = NoProcs

\* The origin of the file after a write call.
OriginAfter(op, o, fault, out) ==
  IF out.res.tag = "Ok" THEN [op |-> op, obj |-> o]
  ELSE IF out.attempts = 1 /\ fault = "write" THEN [op |-> "partial", obj |-> NoObj]
  ELSE origin

Read(op, type, fault, out) ==
  /\ pc = "idle"
  /\ last' = Call(op, NoObj, type, fault, 0, out)
  /\ pc' = "returned"
  /\ UNCHANGED <<path, file, origin, features, procs>>

Write(op, o, fault, k, out) ==
  /\ pc = "idle"
  /\ last' = Call(op, o, o.type, fault, IF fault = "write" THEN k ELSE 0, out)
  /\ file' = out.file
  /\ origin' = OriginAfter(op, o, fault, out)
  /\ pc' = "returned"
  /\ UNCHANGED <<path, features, procs>>

FromFile ==
  \E type \in Types, fault \in ReadFaults :
    Read("from_file", type, fault, from_file(path, type, file, fault))

WriteToFile ==
  \E o \in Objects, fault \in WriteFaults, k \in 0..MaxPartial :
    Write("write_to_file", o, fault, k, write_to_file(o, path, file, fault, k))

WriteToFilePretty ==
  \E o \in Objects, fault \in WriteFaults, k \in 0..MaxPartial :
    Write("write_to_file_pretty", o, fault, k, write_to_file_pretty(o, path, file, fault, k))

LibFromFile ==
  \E type \in Types, fault \in ReadFaults :
    Read("lib_from_file", type, fault, lib_from_file(path, type, file, fault))

LibWriteToFile ==
  \E o \in Objects, fault \in WriteFaults, k \in 0..MaxPartial :
    Write("lib_write_to_file", o, fault, k, lib_write_to_file(o, path, file, fault, k))

ResolveExtension ==
  Read("extension", "none", "none", functions_extension(path, file))

\* The caller takes the result.
Return ==
  /\ pc = "returned"
  /\ pc' = "idle"
  /\ last' = NoCall
  /\ UNCHANGED <<path, file, origin, features, procs>>

\* Another program writes the file.
ExternalWrite ==
  /\ pc = "idle"
  /\ \E t \in ForeignTexts : file' = FileOf(t)
  /\ origin' = [op |-> "external", obj |-> NoObj]
  /\ UNCHANGED <<path, pc, last, features, procs>>

\* Another program removes the file.
Remove ==
  /\ pc = "idle"
  /\ file.exists
  /\ file' = NoFile
  /\ origin' = NoOrigin
  /\ UNCHANGED <<path, pc, last, features, procs>>

Next ==
  \/ FromFile
  \/ WriteToFile
  \/ WriteToFilePretty
  \/ LibFromFile
  \/ LibWriteToFile
  \/ ResolveExtension
  \/ Return
  \/ ExternalWrite
  \/ Remove

Spec == Init /\ [][Next]_vars

SpecBuilds == InitBuilds /\ [][Next]_vars

(***************************************************************************)
(* Calls of several programs, or threads, on one path, at the grain of the *)
(* file system calls std::fs::write and std::fs::read_to_string make:      *)
(* write is File::create (create or truncate) and then write_all, a loop   *)
(* of write calls at the writer's own offset; read_to_string is File::open *)
(* and then reads up to the end of the file.  The code takes no lock.      *)
(***************************************************************************)
Writers == {"w1", "w2"}

Readers == {"r"}

ConcurrentPaths == {<<"x", ".">> \o Str_json, <<"x", ".">> \o Str_yml}

ConcurrentObjects == {Person("1", <<"a">>), Person("7", <<" ">>)}

\* The object whose rendering the file holds before the calls.
InitialObject == Person("1", <<"a">>)

Proc(at, o, buf, pos, res) == [pc |-> at, obj |-> o, buf |-> buf, pos |-> pos, res |-> res]

IdleProc == Proc("idle", NoObj, <<>>, 0, Ok(Unit))

Active(p) == procs.calls[p].pc \notin {"idle", "done"}

\* A call that starts while another is in progress overlaps it.
Started(p, call) ==
  [calls |-> [procs.calls EXCEPT ![p] = call],
   overlapped |-> procs.overlapped \/ \E q \in Writers \cup Readers : q # p /\ Active(q)]

Moved(p, call) == [procs EXCEPT !.calls[p] = call]

\* The byte groups a byte of a hole reads as.
Hole == "NUL"

\* File::create leaving the content of an existing file.
create_no_truncate(f) == IF f.exists THEN f ELSE FileOf(<<>>)

\* File::create: the file exists and is empty afterwards.
create(f) == FileOf(<<>>)

\* One write call at offset pos; a gap before pos reads as zero bytes.
write_at(t, pos, chunk) ==
  LET n == IF Len(t) > pos + Len(chunk) THEN Len(t) ELSE pos + Len(chunk) IN
  [i \in 1..n |-> IF i > pos /\ i <= pos + Len(chunk) THEN chunk[i - pos]
                  ELSE IF i <= Len(t) THEN t[i] ELSE Hole]

\* The file holds the rendering of an object, written by an earlier call.
InitConcurrent ==
  /\ path \in ConcurrentPaths
  /\ features = Features
  /\ file = write_to_file(InitialObject, path, NoFile, "none", 0).file
  /\ origin = [op |-> "write_to_file", obj |-> InitialObject]
  /\ pc = "idle"
  /\ last = NoCall
  /\ procs = [calls |-> [p \in Writers \cup Readers |-> IdleProc], overlapped |-> FALSE]

\* write_to_file up to the call of std::fs::write: the extension is matched
\* and the object rendered; the text is the buffer handed to write.
WriteStart(w) ==
  /\ procs.calls[w].pc = "idle"
  /\ \E o \in ConcurrentObjects :
       LET out == write_to_file(o, path, NoFile, "none", 0) IN
       procs' = Started(w, IF out.res.tag = "Ok"
                           THEN Proc("create", o, out.file.text, 0, Ok(Unit))
                           ELSE Proc("done", o, <<>>, 0, out.res))
  /\ UNCHANGED <<path, file, origin, pc, last, features>>

WriteCreate(w) ==
  /\ procs.calls[w].pc = "create"
  /\ file' = create(file)
  /\ procs' = Moved(w, [procs.calls[w] EXCEPT !.pc = "write"])
  /\ UNCHANGED <<path, origin, pc, last, features>>

\* write_all: the first write call may write any part of the buffer, the
\* next one writes the rest.
WriteAll(w) ==
  LET c == procs.calls[w] IN
  /\ c.pc = "write"
  /\ \E n \in (IF c.pos = 0 THEN 1..Len(c.buf) ELSE {Len(c.buf) - c.pos}) :
       /\ file' = FileOf(write_at(file.text, c.pos, SubSeq(c.buf, c.pos + 1, c.pos + n)))
       /\ procs' = Moved(w, [c EXCEPT !.pos = c.pos + n,
                                      !.pc = IF c.pos + n = Len(c.buf) THEN "done"
                                             ELSE "write"])
  /\ UNCHANGED <<path, origin, pc, last, features>>

\* from_file up to File::open in read_to_string.
ReadOpen(r) ==
  /\ procs.calls[r].pc = "idle"
  /\ procs' = Started(r, IF from_file(path, "Person", file, "none").attempts = 0
                         THEN Proc("done", NoObj, <<>>, 0,
                                   from_file(path, "Person", file, "none").res)
                         ELSE Proc("read", NoObj, <<>>, 0, Ok(Unit)))
  /\ UNCHANGED <<path, file, origin, pc, last, features>>

\* A read call returning data: the first may return any part of what the
\* file holds, the next ones all that follows the reader's offset.
ReadMore(r) ==
  LET c == procs.calls[r] IN
  /\ c.pc = "read"
  /\ c.pos < Len(file.text)
  /\ \E n \in (IF c.pos = 0 THEN 1..Len(file.text) ELSE {Len(file.text) - c.pos}) :
       procs' = Moved(r, [c EXCEPT !.buf = c.buf \o SubSeq(file.text, c.pos + 1, c.pos + n),
                                  !.pos = c.pos + n])
  /\ UNCHANGED <<path, file, origin, pc, last, features>>

\* A read call returning 0: the text read goes to the back-end and from_file
\* returns.
ReadEnd(r) ==
  LET c == procs.calls[r] IN
  /\ c.pc = "read"
  /\ c.pos >= Len(file.text)
  /\ procs' = Moved(r, [c EXCEPT !.pc = "done",
                                 !.res = from_file(path, "Person", FileOf(c.buf), "none").res])
  /\ UNCHANGED <<path, file, origin, pc, last, features>>

NextConcurrent ==
  \/ \E w \in Writers : WriteStart(w)
  \/ \E w \in Writers : WriteCreate(w)
  \/ \E w \in Writers : WriteAll(w)
  \/ \E r \in Readers : ReadOpen(r)
  \/ \E r \in Readers : ReadMore(r)
  \/ \E r \in Readers : ReadEnd(r)

SpecConcurrent == InitConcurrent /\ [][NextConcurrent]_vars

(***************************************************************************)
(* Calls of ToXml::to_xml_pretty with the caller's indentation.  A char is *)
(* its code point: ' ' is 32, 'x' 120, U+00E9 233, U+0109 265, U+0120 288, *)
(* U+20AC 8364.                                                            *)
(***************************************************************************)
IndentChars == {XML_INDENT_CHAR, 9, 120, 233, 265, 288, 8364}

PrettyCall(at, o, indent_char, indent_size, out) ==
  [pc |-> at, obj |-> o, indent_char |-> indent_char, indent_size |-> indent_size, out |-> out]

InitPretty ==
  /\ path = <<"x", ".">> \o Str_xml
  /\ file = NoFile
  /\ origin = NoOrigin
  /\ pc = "idle"
  /\ last = NoCall
  /\ features = Features
  /\ \E o \in Objects, indent_char \in IndentChars, indent_size \in 0..MaxIndent :
       procs = PrettyCall("idle", o, indent_char, indent_size, RenderOk(<<>>))

ToXmlPretty ==
  /\ procs.pc = "idle"
  /\ procs' = [procs EXCEPT !.pc = "returned",
                            !.out = to_xml_pretty(procs.obj, procs.indent_char,
                                                  procs.indent_size)]
  /\ UNCHANGED <<path, file, origin, pc, last, features>>

NextPretty == ToXmlPretty

SpecPretty == InitPretty /\ [][NextPretty]_vars

(***************************************************************************)
(* Vocabulary of the properties, independent of the dispatchers.           *)
(***************************************************************************)
LowerOf ==
  [c \in {"J", "S", "O", "N", "T", "X", "Y", "M", "L"} |->
     CASE c = "J" -> "j" [] c = "S" -> "s" [] c = "O" -> "o" [] c = "N" -> "n"
       [] c = "T" -> "t" [] c = "X" -> "x" [] c = "Y" -> "y" [] c = "M" -> "m"
       [] c = "L" -> "l"]

Folded(s) == [i \in 1..Len(s) |-> IF s[i] \in DOMAIN LowerOf THEN LowerOf[s[i]] ELSE s[i]]

\* The final component of a path.
FinalComponent(p) ==
  LET slashes == {i \in 1..Len(p) : p[i] = "/"}
      from    == IF slashes = {} THEN 1
                 ELSE 1 + CHOOSE i \in slashes : \A j \in slashes : j <= i
  IN  SubSeq(p, from, Len(p))

\* The dots of the final component that can start an extension.
ExtensionDots(p) == {i \in 2..Len(FinalComponent(p)) : FinalComponent(p)[i] = "."}

HasExtension(p) == ExtensionDots(p) # {}

\* The extension of a path that has one, case-folded.
Extension(p) ==
  LET name == FinalComponent(p)
      dot  == CHOOSE i \in ExtensionDots(p) : \A j \in ExtensionDots(p) : j <= i
  IN  Folded(SubSeq(name, dot + 1, Len(name)))

Supported == {Str_json, Str_toml, Str_xml, Str_yml, Str_yaml}

HasSupportedExtension(p) == HasExtension(p) /\ Extension(p) \in Supported

Returned(ops) == pc = "returned" /\ last.op \in ops

DispatcherOps == {"from_file", "write_to_file", "write_to_file_pretty"}

WriteOps == {"write_to_file", "write_to_file_pretty"}

\* The back-end of a supported extension, as the spec's dispatch table has it.
Render(extension, o) ==
  CASE extension = Str_json -> to_json(o)
    [] extension = Str_toml -> to_toml(o)
    [] extension = Str_xml -> to_xml(o)
    [] extension \in {Str_yml, Str_yaml} -> to_yaml(o)

Parse(extension, type, text) ==
  CASE extension = Str_json -> from_json_string(type, text)
    [] extension = Str_toml -> from_toml_string(type, text)
    [] extension = Str_xml -> from_xml_string(type, text)
    [] extension \in {Str_yml, Str_yaml} -> from_yaml_string(type, text)

\* The back-end reads the object back from its own rendering.
BackendRoundTrips(extension, o) ==
  /\ Render(extension, o).ok
  /\ Parse(extension, o.type, Render(extension, o).text) = ParseOk(o)

\* from_file has returned for the file a successful write_to_file left, into
\* the written object's type, and the read met no I/O failure.
ReadAfterWrite ==
  /\ Returned({"from_file"})
  /\ origin.op = "write_to_file"
  /\ last.type = origin.obj.type
  /\ last.fault = "none"

(***************************************************************************)
(* C1.  Round trip, as claimed: a successful write_to_file(O, p) followed  *)
(* by from_file(p) returns Ok(O), for every object the back-end renders.   *)
(***************************************************************************)
C1_RoundTripEveryObject == ReadAfterWrite => last.res = Ok(origin.obj)

\* C1 as amended: the round trip holds for every object that the back-end of
\* the path's extension reads back from its own rendering.
C1_RoundTrip ==
  (ReadAfterWrite /\ BackendRoundTrips(Extension(path), origin.obj))
    => last.res = Ok(origin.obj)

C1_Witness ==
  /\ ReadAfterWrite
  /\ BackendRoundTrips(Extension(path), origin.obj)
  /\ Extension(path) = Str_json
  /\ last.res = Ok(Person("1", <<" ", "a">>))

(***************************************************************************)
(* C2.  A path whose extension is present and, case-folded, none of json,  *)
(* toml, xml, yml, yaml makes from_file, write_to_file and                 *)
(* write_to_file_pretty fail with UnsupportedFileExtension carrying the    *)
(* (case-folded) extension; the file is not touched.                       *)
(***************************************************************************)
C2_UnsupportedExtension ==
  (Returned(DispatcherOps) /\ HasExtension(path) /\ Extension(path) \notin Supported)
    => /\ last.res = UnsupportedFileExtension(Extension(path))
       /\ last.attempts = 0
       /\ file = last.before

C2_Witness ==
  /\ Returned({"write_to_file_pretty"})
  /\ path = <<"x", ".", "T", "x", "t">>
  /\ last.res = UnsupportedFileExtension(<<"t", "x", "t">>)

(***************************************************************************)
(* C3.  A path with no extension segment makes from_file, write_to_file    *)
(* and write_to_file_pretty fail with NoFileExtensionsSpecified, never     *)
(* with an unsupported-extension, I/O or codec error.                      *)
(***************************************************************************)
C3_MissingExtension ==
  (Returned(DispatcherOps) /\ \A i \in 1..Len(FinalComponent(path)) :
                                 FinalComponent(path)[i] = "." => i = 1)
    => /\ last.res = NoFileExtensionsSpecified
       /\ last.res.tag \notin {"UnsupportedFileExtension", "Io", "Serde"}
       /\ last.attempts = 0
       /\ file = last.before

C3_Witness ==
  /\ Returned({"from_file"})
  /\ path = <<"d", ".", "x", "m", "l", "/", "x">>
  /\ last.fault = "denied"
  /\ last.res = NoFileExtensionsSpecified

(***************************************************************************)
(* C4.  Extension matching is case-insensitive in every dispatcher: a      *)
(* from_file or write_to_file call on a path with a supported extension    *)
(* gives the same result, and leaves the same file, on every path that     *)
(* differs from its path only in the case of the extension.                *)
(***************************************************************************)
CaseVariants(p) ==
  {q \in Paths : /\ HasExtension(p) /\ HasExtension(q)
                 /\ Len(q) = Len(p)
                 /\ Extension(q) = Extension(p)
                 /\ \A i \in 1..(Len(p) - Len(Extension(p))) : q[i] = p[i]}

\* The call that returned, made on path q instead.
LastCallOn(q) ==
  CASE last.op = "from_file" -> from_file(q, last.type, last.before, last.fault)
    [] last.op = "lib_from_file" -> lib_from_file(q, last.type, last.before, last.fault)
    [] last.op = "write_to_file" ->
         write_to_file(last.obj, q, last.before, last.fault, last.k)
    [] last.op = "write_to_file_pretty" ->
         write_to_file_pretty(last.obj, q, last.before, last.fault, last.k)
    [] last.op = "lib_write_to_file" ->
         lib_write_to_file(last.obj, q, last.before, last.fault, last.k)
    [] last.op = "extension" -> functions_extension(q, last.before)

C4_CaseInsensitive ==
  (/\ Returned({"from_file", "write_to_file", "lib_from_file", "lib_write_to_file"})
   /\ HasSupportedExtension(path))
    => \A q \in CaseVariants(path) :
         LastCallOn(q) = Outcome(last.res, file, last.attempts)

(***************************************************************************)
(* C5.  yml and yaml are aliases: write_to_file on either uses the YAML    *)
(* back-end and leaves the same bytes for the same object, and from_file   *)
(* on either parses with the YAML back-end.                                *)
(***************************************************************************)
YamlPaths == {q \in Paths : HasExtension(q) /\ Extension(q) \in {Str_yml, Str_yaml}}

C5_YamlAliases ==
  /\ (Returned({"write_to_file"}) /\ path \in YamlPaths)
       => /\ \A q \in YamlPaths :
               LastCallOn(q) = Outcome(last.res, file, last.attempts)
          /\ last.res.tag = "Ok" => file = FileOf(to_yaml(last.obj).text)
  /\ (Returned({"from_file"}) /\ path \in YamlPaths)
       => /\ \A q \in YamlPaths : LastCallOn(q).res = last.res
          /\ (last.fault = "none" /\ file.exists /\ IsUtf8Text(file.text))
               => LET v == from_yaml_string(last.type, file.text)
                  IN  last.res = IF v.ok THEN Ok(v.val) ELSE Serde("serde_yaml")

C5_Witness ==
  /\ Returned({"write_to_file"})
  /\ path = <<"x", ".", "y", "m", "l">>
  /\ last.res = Ok(Unit)
  /\ file.text = <<"id", ":", " ", "1", "\n", "name", ":", " ", "a", "\n">>

(***************************************************************************)
(* C6.  from_file on a readable file whose content the back-end of the     *)
(* extension rejects returns the codec-failure variant, not an I/O or      *)
(* extension error.                                                        *)
(***************************************************************************)
ReadSucceeds == last.fault = "none" /\ last.before.exists /\ IsUtf8Text(last.before.text)

C6_MalformedContent ==
  (/\ Returned({"from_file"}) /\ HasSupportedExtension(path)
   /\ ReadSucceeds
   /\ ~Parse(Extension(path), last.type, last.before.text).ok)
    => /\ last.res.tag = "Serde"
       /\ last.res.kind = Parse(Extension(path), last.type, last.before.text).err

C6_Witness ==
  /\ Returned({"from_file"})
  /\ path = <<"x", ".", "J", "S", "O", "N">>
  /\ last.type = "Person"
  /\ last.before.text = <<"{", "\"", "id", "\"", ":", " ", "1", ",">>
  /\ last.res = Serde(to_string("serde_json"))

(***************************************************************************)
(* C7.  A file system failure while reading or writing a path with a       *)
(* supported extension is returned as the I/O-failure variant wrapping     *)
(* the I/O error, after exactly one file system call.                      *)
(***************************************************************************)
\* What the call renders before it writes.
Rendering(op, extension, o) ==
  IF op = "write_to_file_pretty" /\ extension = Str_json THEN to_json_pretty(o)
  ELSE IF op = "write_to_file_pretty" /\ extension = Str_xml
  THEN to_xml_pretty(o, XML_INDENT_CHAR, XML_INDENT_LEN)
  ELSE Render(extension, o)

C7_IoFailure ==
  /\ (Returned({"from_file"}) /\ HasSupportedExtension(path) /\ ~ReadSucceeds)
       => /\ last.res.tag = "Io"
          /\ last.res.kind = (IF last.fault = "denied" THEN "PermissionDenied"
                              ELSE IF ~last.before.exists THEN "NotFound"
                              ELSE "InvalidData")
          /\ last.attempts = 1
  /\ (/\ Returned(WriteOps) /\ HasSupportedExtension(path)
      /\ last.fault # "none"
      /\ Rendering(last.op, Extension(path), last.obj).ok)
       => /\ last.res.tag = "Io"
          /\ last.res.kind = (IF last.fault = "open" THEN "PermissionDenied"
                              ELSE "StorageFull")
          /\ last.attempts = 1

C7_Witness ==
  /\ Returned({"write_to_file_pretty"})
  /\ path = <<"x", ".", "x", "m", "l">>
  /\ last.fault = "write"
  /\ last.res = Io("StorageFull")
  /\ last.attempts = 1

(***************************************************************************)
(* C8.  Every read and write operation reports a missing extension and an  *)
(* unrecognized extension as two different error variants.                 *)
(***************************************************************************)
C8_DistinctVariants ==
  (pc = "returned" /\ ~HasExtension(path))
    => \A q \in Paths :
         (HasExtension(q) /\ Extension(q) \notin Supported)
           => LastCallOn(q).res.tag # last.res.tag

(***************************************************************************)
(* C9.  On toml, yml and yaml paths write_to_file_pretty returns what      *)
(* write_to_file returns and leaves the same file, and succeeds whenever   *)
(* write_to_file would.                                                    *)
(***************************************************************************)
NoPrettyMode == {Str_toml, Str_yml, Str_yaml}

C9_PrettyFallsBack ==
  (/\ Returned({"write_to_file_pretty"})
   /\ HasExtension(path) /\ Extension(path) \in NoPrettyMode)
    => /\ write_to_file(last.obj, path, last.before, last.fault, last.k)
            = Outcome(last.res, file, last.attempts)
       /\ (Render(Extension(path), last.obj).ok /\ last.fault = "none")
            => /\ last.res = Ok(Unit)
               /\ file = FileOf(Render(Extension(path), last.obj).text)

C9_Witness ==
  /\ Returned({"write_to_file_pretty"})
  /\ path = <<"x", ".", "t", "o", "m", "l">>
  /\ last.res = Ok(Unit)
  /\ file = FileOf(to_toml(Person("1", <<"a">>)).text)

(***************************************************************************)
(* C10.  On json and xml paths, for every object that can be rendered,     *)
(* write_to_file_pretty and write_to_file leave different bytes, and       *)
(* from_file after either write returns an object equal to the one         *)
(* written.                                                                *)
(***************************************************************************)
C10_PrettyDiffersAndRoundTrips ==
  (/\ Returned({"write_to_file_pretty"})
   /\ HasExtension(path) /\ Extension(path) \in {Str_json, Str_xml}
   /\ last.res.tag = "Ok")
    => LET plain == write_to_file(last.obj, path, last.before, "none", 0) IN
       /\ plain.res.tag = "Ok"
       /\ file # plain.file
       /\ from_file(path, last.obj.type, file, "none").res = Ok(last.obj)
       /\ from_file(path, last.obj.type, plain.file, "none").res = Ok(last.obj)

(***************************************************************************)
(* C11.  In every build configuration, a path whose extension names a      *)
(* disabled format makes from_file, write_to_file and write_to_file_pretty *)
(* fail with UnsupportedFileExtension carrying the extension, the variant  *)
(* an unrecognized extension produces; the file is not read or written.    *)
(***************************************************************************)
FeatureOf(extension) ==
  CASE extension = Str_json -> "json"
    [] extension = Str_toml -> "toml"
    [] extension = Str_xml -> "xml"
    [] extension \in {Str_yml, Str_yaml} -> "yaml"

Disabled(p) == HasSupportedExtension(p) /\ FeatureOf(Extension(p)) \notin features

Unrecognized(p) == HasExtension(p) /\ Extension(p) \notin Supported

C11_DisabledFormat ==
  (Returned(DispatcherOps) /\ Disabled(path))
    => /\ last.res = UnsupportedFileExtension(Extension(path))
       /\ last.attempts = 0
       /\ file = last.before
       /\ \A q \in Paths : Unrecognized(q) => LastCallOn(q).res.tag = last.res.tag

C11_Witness ==
  /\ Returned({"write_to_file_pretty"})
  /\ path = <<"x", ".", "Y", "M", "L">>
  /\ features = {"json", "toml", "xml"}
  /\ last.fault = "none"
  /\ last.res = UnsupportedFileExtension(Str_yml)
  /\ file = NoFile

(***************************************************************************)
(* C12.  After a successful write_to_file or write_to_file_pretty (either  *)
(* dispatcher) the file holds exactly the selected back-end's rendering of *)
(* the object, whatever it held before.                                    *)
(***************************************************************************)
C12_ExactContent ==
  (/\ Returned({"write_to_file", "write_to_file_pretty", "lib_write_to_file"})
   /\ last.res.tag = "Ok")
    => /\ HasSupportedExtension(path)
       /\ Rendering(last.op, Extension(path), last.obj).ok
       /\ file = FileOf(Rendering(last.op, Extension(path), last.obj).text)

C12_Witness ==
  /\ Returned({"write_to_file"})
  /\ path = <<"x", ".", "j", "s", "o", "n">>
  /\ last.res = Ok(Unit)
  /\ last.before = FileOf(to_json(Person("1", <<"a">>)).text)
  /\ last.obj = Obj("u32", "7", <<>>)
  /\ file = FileOf(<<"7">>)

(***************************************************************************)
(* C13.  As claimed: after a failed write_to_file or write_to_file_pretty  *)
(* the path holds neither a proper prefix of the rendering nor a truncated *)
(* version of its earlier content.                                         *)
(***************************************************************************)
IsPrefix(s, t) == Len(s) <= Len(t) /\ s = SubSeq(t, 1, Len(s))

IsProperPrefix(s, t) == IsPrefix(s, t) /\ Len(s) < Len(t)

FailedWrite == Returned(WriteOps) /\ last.res.tag # "Ok"

C13_NoPartialFile ==
  FailedWrite
    => \/ file = last.before
       \/ /\ HasSupportedExtension(path)
             => ~(/\ Rendering(last.op, Extension(path), last.obj).ok
                  /\ IsProperPrefix(file.text,
                                    Rendering(last.op, Extension(path), last.obj).text))
          /\ ~(last.before.exists /\ IsProperPrefix(file.text, last.before.text))

\* C13 as amended: a failed write leaves the file as it was unless the file
\* system failed after the file had been created or truncated; then the file
\* holds a proper prefix of the rendering.
C13_FailedWrite ==
  FailedWrite
    => IF last.res.tag = "Io" /\ last.fault = "write"
       THEN /\ HasSupportedExtension(path)
            /\ file.exists
            /\ IsProperPrefix(file.text,
                              Rendering(last.op, Extension(path), last.obj).text)
       ELSE file = last.before

C13_Witness ==
  /\ Returned({"write_to_file_pretty"})
  /\ path = <<"x", ".", "x", "m", "l">>
  /\ last.fault = "write"
  /\ last.res = Io("StorageFull")
  /\ last.before = FileOf(to_xml(Person("1", <<"a">>)).text)
  /\ file = FileOf(<<"<Person>">>)

(***************************************************************************)
(* C14.  Error::source() of a codec failure returned by from_file,         *)
(* write_to_file or write_to_file_pretty is the back-end's original error, *)
(* for every back-end; source() of the two extension errors is None and    *)
(* source() of an I/O failure is the underlying I/O error.                 *)
(***************************************************************************)
\* What the back-end library itself returns.
BackendParse(extension, type, text) ==
  CASE extension = Str_json -> serde_json_from_str(type, text)
    [] extension = Str_toml -> toml_from_str(type, text)
    [] extension = Str_xml -> quick_xml_de_from_str(type, text)
    [] extension \in {Str_yml, Str_yaml} -> serde_yaml_from_str(type, text)

BackendRender(op, extension, o) ==
  CASE extension = Str_json ->
         IF op = "write_to_file_pretty" THEN serde_json_to_writer_pretty(o)
         ELSE serde_json_to_string(o)
    [] extension = Str_toml -> toml_to_string(o)
    [] extension = Str_xml -> quick_xml_se_to_string(o)
    [] extension \in {Str_yml, Str_yaml} -> serde_yaml_to_string(o)

IoErrorOf(call) ==
  CASE call.fault \in {"denied", "open"} -> "PermissionDenied"
    [] call.fault = "write" -> "StorageFull"
    [] ~call.before.exists -> "NotFound"
    [] OTHER -> "InvalidData"

C14_SourceIsCause ==
  Returned(DispatcherOps)
    => CASE last.res.tag = "Serde" ->
              last.source =
                << IF last.op = "from_file"
                   THEN BackendParse(Extension(path), last.type, last.before.text).err
                   ELSE BackendRender(last.op, Extension(path), last.obj).err >>
         [] last.res.tag \in {"UnsupportedFileExtension", "NoFileExtensionsSpecified"} ->
              last.source = <<>>
         [] last.res.tag = "Io" -> last.source = <<IoErrorOf(last)>>
         [] OTHER -> TRUE

(***************************************************************************)
(* C15.  The extension resolver never succeeds with an empty string, also  *)
(* for a file name ending in a dot, and the dispatchers never take an      *)
(* empty extension as their dispatch key: such a path gets the             *)
(* missing-extension error.                                                *)
(***************************************************************************)
C15_NeverEmptyExtension ==
  /\ (Returned({"extension"}) /\ last.res.tag = "Ok") => last.res.ext # << <<>> >>
  /\ Returned(DispatcherOps) => last.res # UnsupportedFileExtension(<<>>)

(***************************************************************************)
(* C16.  As claimed: where the resolver succeeds, the result is the        *)
(* substring of the path after its final '.', lowercased; and for every    *)
(* path that contains a '.', the resolver succeeds with that substring.    *)
(***************************************************************************)
AfterFinalDot(p) ==
  LET dots == {i \in 1..Len(p) : p[i] = "."}
      dot  == CHOOSE i \in dots : \A j \in dots : j <= i
  IN  Folded(SubSeq(p, dot + 1, Len(p)))

ContainsDot(p) == \E i \in 1..Len(p) : p[i] = "."

ExtensionErrors == {"UnsupportedFileExtension", "NoFileExtensionsSpecified"}

FilesTried == {NoFile} \cup {FileOf(t) : t \in ForeignTexts}

C17_ExtensionBeforeFileAccess ==
  Returned({"from_file"})
    => IF ~HasSupportedExtension(path)
       THEN /\ last.res.tag \in ExtensionErrors
            /\ last.attempts = 0
            /\ \A f \in FilesTried, fault \in ReadFaults :
                 from_file(path, last.type, f, fault).res = last.res
       ELSE /\ last.res.tag \notin ExtensionErrors
            /\ last.attempts = 1
            /\ ~ReadSucceeds => last.res.tag = "Io"

C17_Witness ==
  /\ Returned({"from_file"})
  /\ path = <<"x", ".", "t", "x", "t">>
  /\ last.fault = "denied"
  /\ last.before = FileOf(<<ByteGroup(255)>>)
  /\ last.res = UnsupportedFileExtension(<<"t", "x", "t">>)
  /\ last.attempts = 0

(***************************************************************************)
(* C18.  On a path with a supported extension from_file, in either         *)
(* dispatcher, returns exactly what the matching back-end's                *)
(* from_<format>_string returns for the file's text, and what              *)
(* from_<format>_file returns for the path.                                *)
(***************************************************************************)
FormatFile(extension, type, f, fault) ==
  CASE extension = Str_json -> from_json_file(type, f, fault)
    [] extension = Str_toml -> from_toml_file(type, f, fault)
    [] extension = Str_xml -> from_xml_file(type, f, fault)
    [] extension \in {Str_yml, Str_yaml} -> from_yaml_file(type, f, fault)

C18_FromFileIsFromString ==
  (Returned({"from_file", "lib_from_file"}) /\ HasSupportedExtension(path))
    => /\ ReadSucceeds
            => LET v == IF last.op = "from_file"
                        THEN Parse(Extension(path), last.type, last.before.text)
                        ELSE map_err_to_string(
                               BackendParse(Extension(path), last.type, last.before.text))
               IN  last.res = IF v.ok THEN Ok(v.val)
                              ELSE IF last.op = "from_file" THEN Serde(v.err)
                              ELSE SerdeError(v.err)
       /\ last.op = "from_file"
            => last.res = FormatFile(Extension(path), last.type, last.before, last.fault).res

(***************************************************************************)
(* C19.  Rendering precedes every file access of write_to_file and         *)
(* write_to_file_pretty: a call failing with a missing-extension,          *)
(* unsupported-extension or codec error has made no file system call and   *)
(* leaves the file as it was, and an object the back-end cannot render     *)
(* gives the codec error also when the path is not writable.               *)
(***************************************************************************)
C19_RenderingBeforeFileAccess ==
  /\ (Returned(WriteOps) /\ last.res.tag \in ExtensionErrors \cup {"Serde"})
       => /\ last.attempts = 0
          /\ file = last.before
  /\ (/\ Returned(WriteOps) /\ HasSupportedExtension(path)
      /\ ~Rendering(last.op, Extension(path), last.obj).ok)
       => last.res = Serde(Rendering(last.op, Extension(path), last.obj).err)

C19_Witness ==
  /\ Returned({"write_to_file"})
  /\ path = <<"x", ".", "t", "o", "m", "l">>
  /\ last.obj = Obj("u32", "7", <<>>)
  /\ last.fault = "open"
  /\ last.res = Serde(to_string("toml::ser"))
  /\ last.before = FileOf(to_toml(Person("1", <<"a">>)).text)
  /\ file = last.before

(***************************************************************************)
(* C20.  As claimed: a from_file running concurrently with write_to_file   *)
(* calls on a path that held the rendering of M returns Ok(M), Ok(N) for a *)
(* written N, or an Err, and two concurrent writers of N1 and N2 leave     *)
(* exactly the rendering of N1 or of N2.                                   *)
(***************************************************************************)
Done(p) == procs.calls[p].pc = "done"

WrittenObjects == {procs.calls[w].obj : w \in {v \in Writers : procs.calls[v].pc # "idle"}}

ReadsOnlyWholeObjects ==
  \A r \in Readers :
    (Done(r) /\ procs.calls[r].res.tag = "Ok")
      => procs.calls[r].res.val \in {origin.obj} \cup WrittenObjects

WritersLeaveOneRendering ==
  (\A w \in Writers : Done(w))
    => \E w \in Writers : file = FileOf(Render(Extension(path), procs.calls[w].obj).text)

CharGroup(c) == IF c < 128 THEN ByteGroup(c) ELSE "U+" \o ToString(c)

IndentUnit(c, size, depth) == <<"\n">> \o Repeat(CharGroup(c), size * depth)

RECURSIVE IndentedWith(_, _, _, _, _, _)
IndentedWith(evs, c, size, depth, brk, out) ==
  IF evs = <<>> THEN out
  ELSE LET ev == Head(evs)
           d  == IF IsTag(ev) /\ ev[1] \in EndTags THEN depth - 1 ELSE depth
           n  == IF IsTag(ev) /\ ev[1] \in StartTags THEN depth + 1 ELSE d
       IN  IndentedWith(Tail(evs), c, size, n, IsTag(ev),
             out \o (IF IsTag(ev) /\ brk THEN IndentUnit(c, size, d) ELSE <<>>) \o ev)

C21_IndentsWithCallersChar ==
  (procs.pc = "returned" /\ to_xml(procs.obj).ok)
    => procs.out = RenderOk(IndentedWith(XmlEvents(to_xml(procs.obj).text, TRUE, <<>>, <<>>),
                                         procs.indent_char, procs.indent_size,
                                         0, FALSE, <<>>))

====
